---- MODULE Spec2Model ----
(***************************************************************************)
(* A model of hyvis/basic_scans.py: landscape_scan_linear,                 *)
(* collective_scan_linear and pathscan.                                    *)
(*                                                                         *)
(* Numbers.  The code computes in float64.  The model computes the same    *)
(* expressions exactly, in fixed point: a coordinate of a grid point is an *)
(* integer number of 1/Unit, a coordinate of a refined path point an       *)
(* integer number of 1/(resolution+1), and the step sizes of pathscan are  *)
(* fractions <<numerator, denominator>>.  Rounding error of float64 is not *)
(* modelled; the IEEE results of a division by zero (inf, nan) are.        *)
(***************************************************************************)
EXTENDS Integers, Sequences, FiniteSets, TLC

VARIABLES
    op,          \* the function that was called
    subspace,    \* argument subspace: [center, directions]
    scope,       \* argument scope: a float or a (d_num, 2) array
    resolution,  \* argument resolution: an int or a vector (pathscan: an int)
    coll,        \* the locals of collective_scan_linear
    ls,          \* the locals of the running landscape_scan_linear
    calls,       \* the arguments func has been invoked with, in order
    raised,      \* the exception that ended the call, or "none"
    returned,    \* the value the call returned
    pc,          \* the position in the code
    path,        \* pathscan: argument path
    mode,        \* pathscan: argument mode
    stepsize,    \* pathscan: argument stepsize, reassigned in mode "segmented"
    ps           \* pathscan: the locals

vars == <<op, subspace, scope, resolution, coll, ls, calls, raised, returned,
          pc, path, mode, stepsize, ps>>

scanArgs == <<op, subspace, scope>>
pathArgs == <<path, mode>>

(***************************************************************************)
(* Bounds of the model.                                                    *)
(***************************************************************************)
MaxRes == 4        \* the largest number of samples in one direction
MaxPathLen == 4    \* the largest number of points of a path
MaxPathRes == 5    \* the largest resolution given to pathscan
MaxStep == 12      \* the largest stepsize given to pathscan

DNums == {1, 2}                                  \* numbers of directions
DirectionSet == {<<1, 0>>, <<0, 1>>, <<1, 1>>}   \* direction vectors
CenterSet == {<<0, 0>>, <<1, -1>>}               \* centers
ScopeVals == {-1, 0, 1, 2}                       \* ends of a scope row
ScalarScopes == {-1, 0, 1, 2}                    \* scope given as a float
\* Path points; every two of them are an integer distance apart
\* (the 6-8-10 triangle and the middle of its hypotenuse).
PathPoints == {<<0, 0>>, <<3, 4>>, <<6, 8>>, <<6, 0>>}

(***************************************************************************)
(* Vectors and arrays.                                                     *)
(***************************************************************************)
VAdd(u, v) == [i \in DOMAIN u |-> u[i] + v[i]]
VSub(u, v) == [i \in DOMAIN u |-> u[i] - v[i]]
VScale(c, v) == [i \in DOMAIN v |-> c * v[i]]
VZero(n) == [i \in 1..n |-> 0]

RECURSIVE Prod(_)
Prod(s) == IF Len(s) = 0 THEN 1 ELSE Head(s) * Prod(Tail(s))

RECURSIVE Gcd(_, _)
Gcd(a, b) == IF b = 0 THEN a ELSE Gcd(b, a % b)

RECURSIVE LcmUpTo(_)
LcmUpTo(n) == IF n <= 1 THEN 1
              ELSE LET l == LcmUpTo(n - 1) IN (l * n) \div Gcd(l, n)

\* Grid coordinates are integer multiples of 1/Unit: every step
\* (high - low) / (resolution - 1) of np.linspace is one.
Unit == LcmUpTo(MaxRes - 1)

\* The stride of axis d of a C-contiguous array of the given shape.
Stride(shape, d) == Prod(SubSeq(shape, d + 1, Len(shape)))

\* ndarray.reshape between a flat array and one of the given shape (C order):
\* the 0-based multi-index of the element at flat offset k.
Unravel(k, shape) ==
    [d \in 1..Len(shape) |-> (k \div Stride(shape, d)) % shape[d]]

\* The function that is scanned, func(x): a tag that differs from point to
\* point, so that a value stored for the wrong point is seen.
Func(x) == 1000 * x[1] + x[2]

(***************************************************************************)
(* landscape_scan_linear                                                   *)
(***************************************************************************)
ScalarScope(s) == [isarray |-> FALSE, scalar |-> s, array |-> <<>>]
ArrayScope(a) == [isarray |-> TRUE, scalar |-> 0, array |-> a]
ScalarRes(r) == [isscalar |-> TRUE, scalar |-> r, vector |-> <<>>]
VectorRes(v) == [isscalar |-> FALSE, scalar |-> 0, vector |-> v]

\* scope * np.append(-np.ones([d_num, 1]), np.ones([d_num, 1]), 1)
ExpandScope(sc, d_num) ==
    IF sc.isarray THEN sc.array
    ELSE [d \in 1..d_num |-> <<sc.scalar * (-1), sc.scalar * 1>>]

\* Mutant of ScopeOk: the check written with <=
ScopeOkLax(sc) == \A d \in 1..Len(sc) : sc[d][1] <= sc[d][2]

\* (scope[:, 0] < scope[:, 1]).all()
ScopeOk(sc) == \A d \in 1..Len(sc) : sc[d][1] < sc[d][2]

\* resolution * np.ones(d_num, dtype=int)
ExpandResolution(res, d_num) ==
    IF res.isscalar THEN [d \in 1..d_num |-> res.scalar * 1] ELSE res.vector

\* Mutant of Linspace: np.linspace(start, stop, num, endpoint=False)
LinspaceNoEndpoint(start, stop, num) ==
    [i \in 1..num |-> start + (i - 1) * ((stop - start) \div num)]

\* np.linspace(start, stop, num), in 1/Unit; start and stop are given in 1/Unit.
Linspace(start, stop, num) ==
    [i \in 1..num |->
        IF num = 1 THEN start
        ELSE IF i = num THEN stop
        ELSE start + (i - 1) * ((stop - start) \div (num - 1))]

RECURSIVE SumScaled(_, _, _)
\* np.sum(np.dot(np.diag(coef), directions), 0) over the first n directions
SumScaled(coef, dirs, n) ==
    IF n = 0 THEN VZero(Len(dirs[1]))
    ELSE VAdd(SumScaled(coef, dirs, n - 1), VScale(coef[n], dirs[n]))

\* Mutant of BottomCorner: the corner taken from the column scope[:, 1]
BottomCornerHigh(sub, sc) ==
    VScale(Unit, VAdd(sub.center,
                      SumScaled([d \in 1..Len(sc) |-> sc[d][2]],
                                sub.directions, Len(sc))))

\* bottom_corner, in 1/Unit
BottomCorner(sub, sc) ==
    VScale(Unit, VAdd(sub.center,
                      SumScaled([d \in 1..Len(sc) |-> sc[d][1]],
                                sub.directions, Len(sc))))

\* grid_d: the ramp of direction id_d, tiled over the other axes
GridD(sub, sc, res, id_d) ==
    LET steps_d == Linspace(0, Unit * (sc[id_d][2] - sc[id_d][1]), res[id_d])
    IN  [k \in 1..Prod(res) |->
            VScale(steps_d[Unravel(k - 1, res)[id_d] + 1], sub.directions[id_d])]

RECURSIVE GridLoop(_, _, _, _, _)
\* for id_d in range(d_num): grid = grid + grid_d
GridLoop(grid, sub, sc, res, id_d) ==
    IF id_d > Len(res) THEN grid
    ELSE GridLoop([k \in 1..Len(grid) |-> VAdd(grid[k], GridD(sub, sc, res, id_d)[k])],
                  sub, sc, res, id_d + 1)

\* The grid of arguments: an array of shape resolution + [d_dim], kept as its
\* shape and its elements in C order (which is also grid_r, its reshape).
BuildGrid(sub, sc, res) ==
    [shape |-> res,
     data |-> GridLoop([k \in 1..Prod(res) |-> BottomCorner(sub, sc)], sub, sc, res, 1)]

\* Mutant of GridRow: the row after the one asked for
GridRowNext(grid, id_r) == grid.data[((id_r + 1) % Len(grid.data)) + 1]

\* grid_r[[id_r], :]
GridRow(grid, id_r) == grid.data[id_r + 1]

NoFrame == [subspace |-> <<>>, scope_arg |-> <<>>, res_arg |-> <<>>,
            scope |-> <<>>, resolution |-> <<>>, grid |-> <<>>,
            result |-> <<>>, id_r |-> 0]

\* The frame of a call landscape_scan_linear(func, sub, sc, res)
Frame(sub, sc, res) == [NoFrame EXCEPT !.subspace = sub, !.scope_arg = sc, !.res_arg = res]

NoColl == [scope |-> <<>>, resolution |-> <<>>, i_scan |-> 0, scanlist |-> <<>>]
NoPs == [scanpath |-> <<>>, cp |-> 0, csp |-> 0, acc_path |-> <<0, 1>>,
         total_path |-> 0, step_id |-> 0, i_res |-> 0]

\* What a call has returned: nothing yet, None, or an object of a class.
Nothing == [class |-> "nothing"]
None == [class |-> "None"]

\* lines 32-42
LinearScan(result, sub, sc) ==
    [class |-> "LinearScan", result |-> result, subspace |-> sub, scope |-> sc]

\* lines 93-97
ScanCollection(scanlist) == [class |-> "ScanCollection", scanlist |-> scanlist]

\* lines 148-158
PathScan(result, p, m) == [class |-> "PathScan", result |-> result, path |-> p, mode |-> m]

\* result.reshape(resolution): the same elements under a new shape
Reshape(flat, shape) == [shape |-> shape, data |-> flat]

\* The element of an array at a 0-based multi-index (C order)
RECURSIVE Offset(_, _, _)
Offset(idx, shape, d) ==
    IF d = 0 THEN 0 ELSE Offset(idx, shape, d - 1) + idx[d] * Stride(shape, d)
At(arr, idx) == arr.data[Offset(idx, arr.shape, Len(arr.shape)) + 1]


\* dr_tools.AffineSubspace: a holder of a center and of directions
AffineSubspace(directions, center) == [center |-> center, directions |-> directions]

\* lines 208-221: the scope is expanded and checked, the resolution expanded
LsValidate ==
    /\ pc = "ls_start"
    /\ LET d_num == Len(ls.subspace.directions)
           sc == ExpandScope(ls.scope_arg, d_num)
       IN  IF ~ScopeOk(sc)
           THEN /\ raised' = "ValueError"
                /\ pc' = "done"
                /\ ls' = [ls EXCEPT !.scope = sc]
           ELSE /\ ls' = [ls EXCEPT !.scope = sc,
                                    !.resolution = ExpandResolution(ls.res_arg, d_num)]
                /\ pc' = "ls_grid"
                /\ UNCHANGED raised
    /\ UNCHANGED <<scanArgs, resolution, coll, calls, returned, pathArgs, stepsize, ps>>

\* lines 226-259: the grid, res_total, the zeroed result
LsBuildGrid ==
    /\ pc = "ls_grid"
    /\ ls' = [ls EXCEPT !.grid = BuildGrid(ls.subspace, ls.scope, ls.resolution),
                        !.result = [k \in 1..Prod(ls.resolution) |-> 0],
                        !.id_r = 0]
    /\ pc' = "ls_eval"
    /\ UNCHANGED <<scanArgs, resolution, coll, calls, raised, returned, pathArgs, stepsize, ps>>

\* lines 267-268: one iteration of the evaluation loop
LsEval ==
    /\ pc = "ls_eval"
    /\ ls.id_r < Prod(ls.resolution)
    /\ LET x == GridRow(ls.grid, ls.id_r)
       IN  /\ calls' = Append(calls, x)
           /\ ls' = [ls EXCEPT !.result[ls.id_r + 1] = Func(x), !.id_r = ls.id_r + 1]
    /\ UNCHANGED <<scanArgs, resolution, coll, raised, returned, pc, pathArgs, stepsize, ps>>

\* lines 269-271: the result is reshaped and wrapped; in a collective scan the
\* LinearScan is appended to scanlist (lines 318-329)
LsReturn ==
    /\ pc = "ls_eval"
    /\ ls.id_r = Prod(ls.resolution)
    /\ LET scan == LinearScan(Reshape(ls.result, ls.resolution), ls.subspace, ls.scope)
       IN  IF op = "landscape_scan_linear"
           THEN /\ returned' = scan
                /\ pc' = "done"
                /\ UNCHANGED coll
           ELSE /\ coll' = [coll EXCEPT !.scanlist = Append(coll.scanlist, scan),
                                        !.i_scan = coll.i_scan + 1]
                /\ pc' = "coll_loop"
                /\ UNCHANGED returned
    /\ UNCHANGED <<scanArgs, resolution, ls, calls, raised, pathArgs, stepsize, ps>>

(***************************************************************************)
(* collective_scan_linear                                                  *)
(***************************************************************************)
\* lines 301-313
CollValidate ==
    /\ pc = "coll_start"
    /\ LET d_num == Len(subspace.directions)
           sc == ExpandScope(scope, d_num)
       IN  IF ~ScopeOk(sc)
           THEN /\ raised' = "ValueError"
                /\ pc' = "done"
                /\ coll' = [coll EXCEPT !.scope = sc]
           ELSE /\ coll' = [coll EXCEPT !.scope = sc,
                                        !.resolution = ExpandResolution(resolution, d_num)]
                /\ pc' = "coll_loop"
                /\ UNCHANGED raised
    /\ UNCHANGED <<scanArgs, resolution, ls, calls, returned, pathArgs, stepsize, ps>>

\* Mutant of SubScanSubspace: every scan along the first direction
SubScanSubspaceFirst(sub, i_scan) ==
    [center |-> sub.center, directions |-> <<sub.directions[1]>>]

\* The subspace of the i_scan-th scan (i_scan counts from 0)
SubScanSubspace(sub, i_scan) ==
    AffineSubspace(<<sub.directions[i_scan + 1]>>, sub.center)

\* lines 317-328: the call of landscape_scan_linear for direction i_scan
CollCall ==
    /\ pc = "coll_loop"
    /\ coll.i_scan < Len(subspace.directions)
    /\ ls' = Frame(SubScanSubspace(subspace, coll.i_scan),
                   ArrayScope(<<coll.scope[coll.i_scan + 1]>>),
                   ScalarRes(coll.resolution[coll.i_scan + 1]))
    /\ pc' = "ls_start"
    /\ UNCHANGED <<scanArgs, resolution, coll, calls, raised, returned, pathArgs, stepsize, ps>>

\* line 331
CollReturn ==
    /\ pc = "coll_loop"
    /\ coll.i_scan = Len(subspace.directions)
    /\ returned' = ScanCollection(coll.scanlist)
    /\ pc' = "done"
    /\ UNCHANGED <<scanArgs, resolution, coll, ls, calls, raised, pathArgs, stepsize, ps>>

(***************************************************************************)
(* The calls of the two scans that the model explores.                     *)
(***************************************************************************)
Subspaces ==
    {AffineSubspace(dirs, c) :
        dirs \in UNION {[1..n -> DirectionSet] : n \in DNums}, c \in CenterSet}

ScopeArgs(d_num) ==
    {ScalarScope(s) : s \in ScalarScopes}
    \cup {ArrayScope(a) : a \in [1..d_num -> ScopeVals \X ScopeVals]}

ResArgs(d_num) ==
    {ScalarRes(r) : r \in 1..MaxRes}
    \cup {VectorRes(v) : v \in [1..d_num -> 1..MaxRes]}

InitScan ==
    /\ op \in {"landscape_scan_linear", "collective_scan_linear"}
    /\ subspace \in Subspaces
    /\ scope \in ScopeArgs(Len(subspace.directions))
    /\ resolution \in ResArgs(Len(subspace.directions))
    /\ coll = NoColl
    /\ ls = IF op = "landscape_scan_linear"
            THEN Frame(subspace, scope, resolution) ELSE NoFrame
    /\ pc = IF op = "landscape_scan_linear" THEN "ls_start" ELSE "coll_start"
    /\ calls = <<>>
    /\ raised = "none"
    /\ returned = Nothing
    /\ path = <<>>
    /\ mode = "none"
    /\ stepsize = <<0, 1>>
    /\ ps = NoPs

NextScan ==
    \/ LsValidate
    \/ LsBuildGrid
    \/ LsEval
    \/ LsReturn
    \/ CollValidate
    \/ CollCall
    \/ CollReturn

SpecScan == InitScan /\ [][NextScan]_vars

(***************************************************************************)
(* pathscan                                                                *)
(***************************************************************************)
Abs(a) == IF a < 0 THEN -a ELSE a

\* np.linalg.norm(v), for the vectors whose Euclidean norm is an integer
Norm(v) == CHOOSE n \in 0..(Abs(v[1]) + Abs(v[2])) : n * n = v[1] * v[1] + v[2] * v[2]

\* A float is a fraction <<n, d>> with d >= 0; <<n, 0>> is what float64 gives
\* for a division by zero: inf for n > 0, nan for n = 0.
Finite(a) == a[2] > 0

\* a + b and a - b of finite floats
FAdd(a, b) == <<a[1] * b[2] + b[1] * a[2], a[2] * b[2]>>
FSub(a, b) == <<a[1] * b[2] - b[1] * a[2], a[2] * b[2]>>

\* a >= b; a comparison with inf on the right or with nan is False
FGeq(a, b) == Finite(a) /\ Finite(b) /\ a[1] * b[2] >= b[1] * a[2]

\* np.float64(a) / k for an int k, a >= 0
FDiv(a, k) == IF k > 0 THEN <<a, k>> ELSE IF k < 0 THEN <<-a, -k>> ELSE <<a, 0>>

\* line 413: the length of the segment that ends at path[cp]
SegLen(p, cp) == Norm(VSub(p[cp], p[cp + 1]))

RECURSIVE TotalPath(_, _)
\* lines 423-427: the sum of the first n segment lengths
TotalPath(p, n) == IF n = 0 THEN 0 ELSE TotalPath(p, n - 1) + SegLen(p, n)

\* Mutant of CompressedEmit: the comparison turned around
CompressedEmitBelow(acc, step) == FGeq(step, acc)

\* line 414: the test that emits a point in mode "compressed"
CompressedEmit(acc, step) == FGeq(acc, step)

\* lines 436-439: the test that emits a point in mode "segmented"
SegmentedEmit(acc, seg, step) == FGeq(FAdd(acc, <<seg, 1>>), step)

\* Mutant of RefinedIndex: the rows of a step counted as resolution
RefinedIndexShort(step_id, i_res, res) == step_id * res + i_res

\* lines 400-404: a point of the refined path, in 1/(res + 1);
\* step_id and i_res count from 0
RefinedIndex(step_id, i_res, res) == step_id * (res + 1) + i_res
RefinedPoint(p, step_id, i_res, res) ==
    VAdd(VScale(res + 1, p[step_id + 1]),
         VScale(i_res, VSub(p[step_id + 2], p[step_id + 1])))

\* line 397: the number of rows of the refined path
RefinedLen(l_p, res) == (l_p - 1) * (1 + res) + 1

\* lines 394-395
PathRaw ==
    /\ pc = "p_start" /\ mode = "raw"
    /\ ps' = [ps EXCEPT !.scanpath = path]
    /\ pc' = "p_end"
    /\ UNCHANGED <<scanArgs, resolution, coll, ls, calls, raised, returned,
                   pathArgs, stepsize>>

\* lines 396-397
RefinedAlloc ==
    /\ pc = "p_start" /\ mode = "refined"
    /\ ps' = [ps EXCEPT !.scanpath = [i \in 1..RefinedLen(Len(path), resolution) |-> VZero(2)],
                        !.step_id = 0, !.i_res = 0]
    /\ pc' = "p_refined"
    /\ UNCHANGED <<scanArgs, resolution, coll, ls, calls, raised, returned,
                   pathArgs, stepsize>>

\* lines 398-404: one iteration of the inner loop
RefinedAssign ==
    /\ pc = "p_refined"
    /\ ps.step_id < Len(path) - 1
    /\ ps' = [ps EXCEPT
                !.scanpath[RefinedIndex(ps.step_id, ps.i_res, resolution) + 1] =
                    RefinedPoint(path, ps.step_id, ps.i_res, resolution),
                !.i_res = IF ps.i_res = resolution THEN 0 ELSE ps.i_res + 1,
                !.step_id = IF ps.i_res = resolution THEN ps.step_id + 1 ELSE ps.step_id]
    /\ UNCHANGED <<scanArgs, resolution, coll, ls, calls, raised, returned, pc,
                   pathArgs, stepsize>>

\* line 405: scanpath[-1] = path[-1]
RefinedLast ==
    /\ pc = "p_refined"
    /\ ps.step_id >= Len(path) - 1
    /\ ps' = [ps EXCEPT !.scanpath[Len(ps.scanpath)] = VScale(resolution + 1, path[Len(path)])]
    /\ pc' = "p_end"
    /\ UNCHANGED <<scanArgs, resolution, coll, ls, calls, raised, returned,
                   pathArgs, stepsize>>

\* lines 406-411
CompressedInit ==
    /\ pc = "p_start" /\ mode = "compressed"
    /\ ps' = [ps EXCEPT !.scanpath = [[i \in 1..Len(path) |-> VZero(2)] EXCEPT ![1] = path[1]],
                        !.cp = 1, !.csp = 1, !.acc_path = <<0, 1>>]
    /\ pc' = "p_compressed"
    /\ UNCHANGED <<scanArgs, resolution, coll, ls, calls, raised, returned,
                   pathArgs, stepsize>>

\* lines 412-420: one iteration of the loop
CompressedStep ==
    /\ pc = "p_compressed"
    /\ ps.cp < Len(path)
    /\ LET acc == FAdd(ps.acc_path, <<SegLen(path, ps.cp), 1>>)
       IN  IF CompressedEmit(acc, stepsize)
           THEN ps' = [ps EXCEPT !.scanpath[ps.csp + 1] = path[ps.cp + 1],
                                 !.cp = ps.cp + 1, !.csp = ps.csp + 1,
                                 !.acc_path = <<0, 1>>]
           ELSE ps' = [ps EXCEPT !.cp = ps.cp + 1, !.acc_path = acc]
    /\ UNCHANGED <<scanArgs, resolution, coll, ls, calls, raised, returned, pc,
                   pathArgs, stepsize>>

\* line 421 (and line 447): scanpath = scanpath[:csp, :]
SliceScanpath ==
    /\ pc \in {"p_compressed", "p_segmented"}
    /\ ps.cp >= Len(path)
    /\ ps' = [ps EXCEPT !.scanpath = SubSeq(ps.scanpath, 1, ps.csp)]
    /\ pc' = "p_end"
    /\ UNCHANGED <<scanArgs, resolution, coll, ls, calls, raised, returned,
                   pathArgs, stepsize>>

\* lines 422-434: the total length, the stepsize, the first point.
\* total_path is the int 0 when the path has no segment, and 0 / 0 of ints
\* raises; a float64 divided by 0 is inf or nan.
SegmentedInit ==
    /\ pc = "p_start" /\ mode = "segmented"
    /\ LET total == TotalPath(path, Len(path) - 1)
       IN  IF Len(path) = 1 /\ resolution - 1 = 0
           THEN /\ raised' = "ZeroDivisionError"
                /\ pc' = "done"
                /\ ps' = [ps EXCEPT !.total_path = total]
                /\ UNCHANGED stepsize
           ELSE /\ stepsize' = FDiv(total, resolution - 1)
                /\ ps' = [ps EXCEPT !.total_path = total,
                                    !.scanpath = [[i \in 1..Len(path) |-> VZero(2)]
                                                    EXCEPT ![1] = path[1]],
                                    !.cp = 1, !.csp = 1, !.acc_path = <<0, 1>>]
                /\ pc' = "p_segmented"
                /\ UNCHANGED raised
    /\ UNCHANGED <<scanArgs, resolution, coll, ls, calls, returned, pathArgs>>

\* lines 435-446: one iteration of the loop
SegmentedStep ==
    /\ pc = "p_segmented"
    /\ ps.cp < Len(path)
    /\ IF SegmentedEmit(ps.acc_path, SegLen(path, ps.cp), stepsize)
       THEN ps' = [ps EXCEPT !.scanpath[ps.csp + 1] = path[ps.cp + 1],
                             !.cp = ps.cp + 1, !.csp = ps.csp + 1,
                             !.acc_path = FSub(stepsize, ps.acc_path)]
       ELSE ps' = [ps EXCEPT !.cp = ps.cp + 1]
    /\ UNCHANGED <<scanArgs, resolution, coll, ls, calls, raised, returned, pc,
                   pathArgs, stepsize>>

\* line 449: the function ends with "pass": func is not called and the
\* function returns None
PathReturn ==
    /\ pc = "p_end"
    /\ returned' = None
    /\ pc' = "done"
    /\ UNCHANGED <<scanArgs, resolution, coll, ls, calls, raised, pathArgs,
                   stepsize, ps>>

(***************************************************************************)
(* The calls of pathscan that the model explores.  An argument the mode    *)
(* does not read keeps its default (resolution=0, stepsize=0).             *)
(***************************************************************************)
Paths == UNION {[1..n -> PathPoints] : n \in 1..MaxPathLen}

InitPath ==
    /\ op = "pathscan"
    /\ path \in Paths
    /\ mode \in {"raw", "refined", "compressed", "segmented"}
    /\ resolution \in IF mode \in {"refined", "segmented"} THEN 0..MaxPathRes ELSE {0}
    /\ stepsize \in IF mode = "compressed" THEN {<<s, 1>> : s \in 0..MaxStep} ELSE {<<0, 1>>}
    /\ subspace = <<>>
    /\ scope = <<>>
    /\ coll = NoColl
    /\ ls = NoFrame
    /\ ps = NoPs
    /\ calls = <<>>
    /\ raised = "none"
    /\ returned = Nothing
    /\ pc = "p_start"

NextPath ==
    \/ PathRaw
    \/ RefinedAlloc
    \/ RefinedAssign
    \/ RefinedLast
    \/ CompressedInit
    \/ CompressedStep
    \/ SegmentedInit
    \/ SegmentedStep
    \/ SliceScanpath
    \/ PathReturn

SpecPath == InitPath /\ [][NextPath]_vars

(***************************************************************************)
(* Properties of landscape_scan_linear and collective_scan_linear,         *)
(* checked under SpecScan.                                                 *)
(***************************************************************************)
D == Len(subspace.directions)
ScopeRows == ExpandScope(scope, D)
ResVec == ExpandResolution(resolution, D)
ValidScope == \A d \in 1..D : ScopeRows[d][1] < ScopeRows[d][2]
LandscapeDone ==
    op = "landscape_scan_linear" /\ pc = "done" /\ raised = "none"
CollectiveDone ==
    op = "collective_scan_linear" /\ pc = "done" /\ raised = "none"

\* center + sum_d scope[d, col] * directions[d], in 1/Unit
Corner(col) ==
    VScale(Unit, VAdd(subspace.center,
                      SumScaled([d \in 1..D |-> ScopeRows[d][col]],
                                subspace.directions, D)))
FirstIndex == [d \in 1..D |-> 0]
LastIndex == [d \in 1..D |-> ResVec[d] - 1]
CornersAtScope ==
    /\ returned.result.shape = ResVec
    /\ At(ls.grid, FirstIndex) = Corner(1)
    /\ At(ls.grid, LastIndex) = Corner(2)

\* C1, as claimed: for every valid scope and every resolution with entries
\* >= 1, the result of landscape_scan_linear has the shape of the resolution
\* vector, the grid point at index (0,...,0) is center + sum_d
\* scope[d,0]*directions[d] and the grid point at the last index is
\* center + sum_d scope[d,1]*directions[d].
C1_AsClaimed == LandscapeDone => CornersAtScope

\* C1, amended: the same for every resolution with all entries >= 2 (a
\* direction with a single sample is sampled at its low end only).
C1_Corners ==
    (LandscapeDone /\ \A d \in 1..D : ResVec[d] >= 2) => CornersAtScope

C1_Witness ==
    /\ LandscapeDone
    /\ D = 2 /\ scope.isarray /\ ~resolution.isscalar
    /\ ResVec = <<3, 4>>
    /\ ScopeRows = <<<<-1, 2>>, <<0, 1>>>>
    /\ CornersAtScope

\* C2: a successful landscape_scan_linear has invoked func once per grid
\* index, prod(resolution) times in all, the k-th call (row-major) with the
\* grid point of the k-th index, and the value of that call is the element
\* of the result at that index.
C2_OncePerIndex ==
    LandscapeDone =>
        /\ Len(calls) = Prod(ResVec)
        /\ \A k \in 0..(Prod(ResVec) - 1) :
              /\ calls[k + 1] = At(ls.grid, Unravel(k, ResVec))
              /\ At(returned.result, Unravel(k, ResVec)) = Func(calls[k + 1])

C2_Witness ==
    /\ LandscapeDone
    /\ D = 2 /\ ResVec = <<2, 3>>
    /\ Len(calls) = 6
    /\ Cardinality({calls[k] : k \in 1..6}) = 6

\* C3: a scope with low >= high in some direction makes
\* landscape_scan_linear and collective_scan_linear fail with the scope
\* error (the ValueError of the scope check, which the specification calls
\* InvalidScopeError) at the check, with func never invoked.
C3_InvalidScopeRejected ==
    ~ValidScope =>
        /\ calls = <<>>
        /\ pc \in {"ls_start", "coll_start", "done"}
        /\ pc = "done" => (raised = "ValueError" /\ returned = Nothing)

C3_Witness ==
    /\ op = "collective_scan_linear"
    /\ D = 2 /\ scope.isarray
    /\ ScopeRows[1][1] < ScopeRows[1][2]
    /\ ScopeRows[2][1] = ScopeRows[2][2]
    /\ pc = "done" /\ raised = "ValueError" /\ calls = <<>>

\* C5: collective_scan_linear returns a ScanCollection of exactly D scans;
\* the i-th has the input center, the single direction directions[i], the
\* scope row scope[i] and resolution[i] samples.
C5_OneScanPerDirection ==
    CollectiveDone =>
        /\ returned.class = "ScanCollection"
        /\ Len(returned.scanlist) = D
        /\ \A i \in 1..D :
              LET scan == returned.scanlist[i]
              IN  /\ scan.subspace.center = subspace.center
                  /\ scan.subspace.directions = <<subspace.directions[i]>>
                  /\ scan.scope = <<ScopeRows[i]>>
                  /\ scan.result.shape = <<ResVec[i]>>
                  /\ Len(scan.result.data) = ResVec[i]

C5_Witness ==
    /\ CollectiveDone
    /\ D = 2 /\ subspace.directions[1] # subspace.directions[2]
    /\ ~scope.isarray /\ ~resolution.isscalar
    /\ ResVec[1] # ResVec[2]
    /\ Len(returned.scanlist) = 2

\* The directions are linearly independent (there are at most two of them,
\* in the plane).
Independent ==
    LET dirs == subspace.directions
    IN  IF D = 1 THEN dirs[1] # <<0, 0>>
        ELSE dirs[1][1] * dirs[2][2] - dirs[1][2] * dirs[2][1] # 0
SymmetricScope == \A d \in 1..D : ScopeRows[d][1] = -ScopeRows[d][2]
SomeEven == \E d \in 1..D : ResVec[d] % 2 = 0
CenterSampled ==
    \E k \in 1..Len(calls) : calls[k] = VScale(Unit, subspace.center)

L == Len(path)
Resampled == pc \in {"p_end", "done"} /\ raised = "none"

\* C4: pathscan evaluates func once per point of the resampled path, in
\* path order, and returns a PathScan of that path, of the values and of
\* the mode.
C4_ReturnsPathScan ==
    (op = "pathscan" /\ pc = "done" /\ raised = "none") =>
        /\ calls = ps.scanpath
        /\ returned = PathScan([i \in 1..Len(ps.scanpath) |-> Func(ps.scanpath[i])],
                               ps.scanpath, mode)

\* The i-th smallest element of a set of numbers
Nth(S, i) == CHOOSE x \in S : Cardinality({y \in S : y < x}) = i - 1
\* The distance along the path from path point a to path point b
Along(a, b) == TotalPath(path, b - 1) - TotalPath(path, a - 1)

\* C6: in mode "compressed" the first path point is emitted, the emitted
\* points are a subsequence of the path, and two consecutive emitted points
\* are at least stepsize apart along the path.
C6_CompressedSpacing ==
    (mode = "compressed" /\ Resampled) =>
        /\ ps.scanpath[1] = path[1]
        /\ \E S \in SUBSET (1..L) :
              /\ 1 \in S
              /\ Cardinality(S) = Len(ps.scanpath)
              /\ \A i \in 1..Len(ps.scanpath) : ps.scanpath[i] = path[Nth(S, i)]
              /\ \A i \in 1..(Len(ps.scanpath) - 1) :
                    Along(Nth(S, i), Nth(S, i + 1)) * stepsize[2] >= stepsize[1]

C6_Witness ==
    /\ mode = "compressed" /\ pc = "done"
    /\ path = <<<<0, 0>>, <<3, 4>>, <<6, 0>>, <<6, 8>>>>
    /\ stepsize = <<9, 1>>
    /\ ps.scanpath = <<<<0, 0>>, <<6, 0>>>>

\* A straight path of length 10: its length is the distance of its ends
Straight10 ==
    /\ L >= 2
    /\ TotalPath(path, L - 1) = 10
    /\ Norm(VSub(path[L], path[1])) = 10

\* C7: in mode "segmented" a straight path of length 10 with resolution=5
\* gives the five points at 0, 2.5, 5, 7.5 and 10 along the line.
C7_Equidistant ==
    (mode = "segmented" /\ resolution = 5 /\ Straight10 /\ Resampled) =>
        /\ Len(ps.scanpath) = 5
        /\ \A i \in 1..5 :
              VScale(4, VSub(ps.scanpath[i], path[1]))
                  = VScale(i - 1, VSub(path[L], path[1]))

\* C8: in mode "refined" with L >= 2 points the output has
\* (L-1)*(r+1)+1 points, the point at k*(r+1)+j is
\* path[k] + (path[k+1]-path[k])*j/(r+1), and the last point is the last
\* point of the path.  (Coordinates of scanpath are in 1/(r+1).)
C8_RefinedLayout ==
    (mode = "refined" /\ L >= 2 /\ Resampled) =>
        LET r == resolution
        IN  /\ Len(ps.scanpath) = (L - 1) * (r + 1) + 1
            /\ \A k \in 0..(L - 2) : \A j \in 0..r : \A c \in 1..2 :
                  ps.scanpath[k * (r + 1) + j + 1][c]
                      = (r + 1) * path[k + 1][c] + j * (path[k + 2][c] - path[k + 1][c])
            /\ \A c \in 1..2 :
                  ps.scanpath[Len(ps.scanpath)][c] = (r + 1) * path[L][c]

C8_Witness ==
    /\ mode = "refined" /\ pc = "done"
    /\ path = <<<<0, 0>>, <<6, 8>>, <<6, 0>>>>
    /\ resolution = 1
    /\ ps.scanpath = <<<<0, 0>>, <<6, 8>>, <<12, 16>>, <<12, 8>>, <<12, 0>>>>

\* C9: mode "segmented" with resolution=1 fails with an error at the start
\* of the call, and never goes on with an infinite or undefined stepsize.
C9_Resolution1Rejected ==
    (mode = "segmented" /\ resolution = 1) =>
        /\ pc \in {"p_start", "done"}
        /\ pc = "done" => raised # "none"
        /\ Finite(stepsize)

====
